---- MODULE Spec2Model ----
(***************************************************************************)
(* Type decoration and lazy field-type resolution of strawberry_django:    *)
(* DjangoTypeExtension (type_extension.py) and StrawberryDjangoFieldBase   *)
(* (fields/base.py).  Two classes are decorated, Base and then Sub (a      *)
(* subclass of Base), against one Django model; field objects live in a    *)
(* heap so that a StrawberryDjangoField declared in Base is the very       *)
(* object the subclass inherits.                                           *)
(***************************************************************************)
EXTENDS Integers, Sequences, FiniteSets, TLC

VARIABLES cls, fld, defined, last
vars == <<cls, fld, defined, last>>

(* ------------------------------------------------------------------ *)
(* Bounds                                                             *)
(* ------------------------------------------------------------------ *)
\* resolve_type calls that end in a raised lookup are counted up to this cap
MaxLookups == 2
\* cached property values a field holds, at most
MaxMemo == 1

(* ------------------------------------------------------------------ *)
(* Types.  A type is a sequence of strings: wrappers ("Optional",     *)
(* "List", "Private") followed by one base.                           *)
(* ------------------------------------------------------------------ *)
Auto == <<"auto">>
AnyT == <<"Any">>
UNRESOLVED == <<"UNRESOLVED">>
Fwd == <<"MyBytes?">>
IntT == <<"int">>
Wrappers == {"Optional", "List"}

\* typing.Optional[t]: Optional[Optional[t]] is Optional[t]
Opt(t) == IF t[1] = "Optional" THEN t ELSE <<"Optional">> \o t
ListOf(t) == <<"List">> \o t

RECURSIVE unwrap_type(_)
unwrap_type(t) ==
    IF Len(t) > 1 /\ t[1] \in Wrappers THEN unwrap_type(Tail(t)) ELSE t

is_auto_never(t) == FALSE
is_auto(t) == t = Auto
is_private(t) == t[1] = "Private"

\* a placeholder is what resolve_type still has to replace from the model
IsPlaceholder(t) == unwrap_type(t) \in {Auto, AnyT}
Concrete(t) == t # UNRESOLVED /\ ~IsPlaceholder(t) /\ t[1] # "RAISE"

IsOptionalT(t) == t[1] = "Optional"
\* a specialised relay.Connection class is <<"Connection", NodeType>>, a
\* StrawberryUnion is <<"Union", member, ...>>
IsConnectionT(t) == LET u == IF t[1] = "Optional" THEN Tail(t) ELSE t
                    IN u[1] = "Connection"
IsListT(t) == LET u == IF t[1] = "Optional" THEN Tail(t) ELSE t IN u[1] = "List"

(* ------------------------------------------------------------------ *)
(* The Django model the types are bound to                            *)
(* ------------------------------------------------------------------ *)
\* model._meta.fields, in model order
MetaFields == <<"id", "mandatory", "default", "blank", "null", "color">>

NoAttr == [kind |-> "none", name |-> "", attname |-> "", t |-> <<"none">>,
           null |-> FALSE, default |-> FALSE, blank |-> FALSE, autopk |-> FALSE]
Scalar(n, t) == [NoAttr EXCEPT !.kind = "scalar", !.name = n, !.attname = n, !.t = t]
Column(n) == Scalar(n, IntT)
ColorFK == [NoAttr EXCEPT !.kind = "fk", !.name = "color", !.attname = "color_id"]

\* getattr(model, name) / model._meta.get_field(name): the attribute table of
\* the bound model (tests/fields/test_input.py InputFieldsModel, plus the
\* relations and properties of tests/models.py)
ModelAttr(name) ==
    CASE name = "id"        -> [Scalar("id", <<"ID">>) EXCEPT !.autopk = TRUE]
      [] name = "mandatory" -> Column("mandatory")
      [] name = "default"   -> [Column("default") EXCEPT !.default = TRUE]
      [] name = "blank"     -> [Column("blank") EXCEPT !.blank = TRUE]
      [] name = "null"      -> [Column("null") EXCEPT !.null = TRUE]
      [] name = "color"     -> ColorFK
      [] name = "color_id"  -> ColorFK
      [] name = "types"     -> [NoAttr EXCEPT !.kind = "rev", !.name = "types", !.attname = "types"]
      [] name = "groups"    -> [NoAttr EXCEPT !.kind = "m2m", !.name = "groups", !.attname = "groups"]
      [] name = "prop"      -> [NoAttr EXCEPT !.kind = "property", !.name = "prop", !.t = <<"str">>]
      [] name = "noann"     -> [NoAttr EXCEPT !.kind = "property", !.name = "noann"]
      [] name = "objects"   -> [NoAttr EXCEPT !.kind = "other", !.name = "objects"]
      [] OTHER              -> NoAttr

FieldKinds == {"scalar", "fk", "rev", "m2m"}
IsRelation(a) == a.kind \in {"fk", "rev", "m2m"}
\* the relation taken for its own target field
target_field_self(a) == a
\* ForeignKey.target_field: the related model's primary key
target_field(a) == [Scalar("id", <<"ID">>) EXCEPT !.autopk = TRUE]
\* python_name.endswith("_id"), over the names the model uses
EndsWithId(name) == name \in {"color_id", "ref_id"}

\* fields/types.py get_model_field: the model field, or FieldDoesNotExist
get_model_field(name) ==
    LET a == ModelAttr(name)
    IN IF a.kind \in FieldKinds THEN a ELSE [NoAttr EXCEPT !.kind = "raise"]

\* fields/types.py is_optional(model_field, is_input, is_partial)
is_optional(a, is_input, is_partial) ==
    \/ a.null
    \/ a.default
    \/ (is_input /\ is_partial)
    \/ (is_input /\ a.autopk)
    \/ (is_input /\ a.blank)

\* fields/types.py resolve_model_field_type(model_field, django_type)
resolve_model_field_type(a, d) ==
    CASE a.kind = "scalar" -> a.t
      [] a.kind = "fk" ->
            IF d.is_filter THEN <<"DjangoModelFilterInput">> ELSE <<"DjangoModelType">>
      [] a.kind \in {"rev", "m2m"} ->
            IF d.is_filter THEN <<"DjangoModelFilterInput">>
            ELSE ListOf(<<"DjangoModelType">>)
      [] OTHER -> <<"none">>

\* fields/types.py resolve_model_field_name(model_field, is_input, is_filter, is_fk_id)
resolve_model_field_name(a, is_input, is_filter, is_fk_id) ==
    IF a.kind \in {"rev", "m2m"} THEN a.name
    ELSE IF is_fk_id \/ (is_input /\ ~is_filter) THEN a.attname
    ELSE a.name

(* ------------------------------------------------------------------ *)
(* Field objects                                                      *)
(* ------------------------------------------------------------------ *)
Classes == {"Base", "Sub"}
\* kind: "dc" a plain dataclasses.Field, "sf" a StrawberryField that is not
\* a StrawberryDjangoField, "dj" a StrawberryDjangoField; memo: the values
\* functools.cached_property has stored in the instance, as <<name, value>>
NewField(kind, name, ann) ==
    [kind |-> kind, name |-> name, django_name |-> "", ann |-> ann,
     is_relation |-> FALSE, default |-> "MISSING", default_value |-> "MISSING",
     resolver |-> FALSE, origin |-> "", lookups |-> 0, memo |-> {}]

\* the class has its object definition (decoration has completed)
HasDefinition(C, c) == C[c].pc = "done"
\* the flags a DjangoObjectDefinition / DjangoTypeExtension carries
Flags(C, c) == [is_input |-> C[c].is_input, is_partial |-> C[c].is_partial,
                is_filter |-> C[c].is_filter]

\* StrawberryField.resolve_type (super().resolve_type): the annotation,
\* resolved in its namespace; a forward reference whose name is not defined
\* yet is UNRESOLVED; Self is the class the field originates from
SuperResolve(f, D) ==
    LET u == unwrap_type(f.ann)
        pre == SubSeq(f.ann, 1, Len(f.ann) - 1)
    IN IF u = Fwd THEN (IF D THEN pre \o <<"MyBytes">> ELSE UNRESOLVED)
       ELSE IF u = <<"Self">> /\ f.origin # "" THEN pre \o <<f.origin>>
       ELSE f.ann

Raise(e) == <<"RAISE", e>>
IsRaise(t) == t[1] = "RAISE"

\* StrawberryDjangoFieldBase.django_definition: the definition of the origin
\* class, once it exists.  (The _django_definition memo holds this same value:
\* an origin is set once and a definition, once created, stays.)
django_definition(F, C, i) ==
    IF F[i].origin # "" /\ HasDefinition(C, F[i].origin) THEN F[i].origin ELSE ""

\* resolve_type that hands back the annotation as it is written
resolve_type_as_annotated(F, C, D, i) == [ret |-> SuperResolve(F[i], D), fld |-> F]

\* resolve_type that does not keep the type it derived
resolve_type_unmemoized(F, C, D, i) ==
    LET f == F[i]
        resolved == SuperResolve(f, D)
        dd == django_definition(F, C, i)
        F1 == F
        name == IF f.django_name # "" THEN f.django_name ELSE f.name
        model_field == get_model_field(name)
        t0 == resolve_model_field_type(
                 IF EndsWithId(f.name) /\ model_field.kind = "fk"
                 THEN target_field(model_field) ELSE model_field, Flags(C, dd))
        t1 == IF is_optional(model_field, C[dd].is_input, C[dd].is_partial)
              THEN Opt(t0) ELSE t0
        F2 == [F1 EXCEPT ![i].lookups = @ + 1]
        again == SuperResolve([f EXCEPT !.ann = t1], D)
    IN IF resolved = UNRESOLVED THEN [ret |-> resolved, fld |-> F]
       ELSE IF dd = "" THEN [ret |-> resolved, fld |-> F]
       ELSE IF unwrap_type(resolved) \in {AnyT, Auto}
       THEN IF model_field.kind = "raise"
            THEN [ret |-> Raise("FieldDoesNotExist"),
                  fld |-> [F1 EXCEPT ![i].lookups = @ + 1]]
            ELSE [ret |-> IF again = Auto THEN UNRESOLVED ELSE again, fld |-> F2]
       ELSE [ret |-> IF resolved = Auto THEN UNRESOLVED ELSE resolved, fld |-> F1]

\* resolve_type that derives the type from the model whatever the
\* annotation holds
resolve_type_relookup(F, C, D, i) ==
    LET f == F[i]
        resolved == SuperResolve(f, D)
        dd == django_definition(F, C, i)
        F1 == F
        name == IF f.django_name # "" THEN f.django_name ELSE f.name
        model_field == get_model_field(name)
        t0 == resolve_model_field_type(
                 IF EndsWithId(f.name) /\ model_field.kind = "fk"
                 THEN target_field(model_field) ELSE model_field, Flags(C, dd))
        t1 == IF is_optional(model_field, C[dd].is_input, C[dd].is_partial)
              THEN Opt(t0) ELSE t0
        F2 == [F1 EXCEPT ![i].ann = t1, ![i].lookups = @ + 1]
        again == SuperResolve(F2[i], D)
    IN IF resolved = UNRESOLVED THEN [ret |-> resolved, fld |-> F]
       ELSE IF dd = "" THEN [ret |-> resolved, fld |-> F]
       ELSE IF TRUE
       THEN IF model_field.kind = "raise"
            THEN [ret |-> Raise("FieldDoesNotExist"),
                  fld |-> [F1 EXCEPT ![i].lookups = @ + 1]]
            ELSE [ret |-> IF again = Auto THEN UNRESOLVED ELSE again, fld |-> F2]
       ELSE [ret |-> IF resolved = Auto THEN UNRESOLVED ELSE resolved, fld |-> F1]

\* StrawberryDjangoFieldBase.resolve_type on field i: the value returned (or
\* the exception raised) and the heap it leaves
resolve_type(F, C, D, i) ==
    LET f == F[i]
        resolved == SuperResolve(f, D)
        dd == django_definition(F, C, i)
        F1 == F
        name == IF f.django_name # "" THEN f.django_name ELSE f.name
        model_field == get_model_field(name)
        t0 == resolve_model_field_type(
                 IF EndsWithId(f.name) /\ model_field.kind = "fk"
                 THEN target_field(model_field) ELSE model_field, Flags(C, dd))
        t1 == IF is_optional(model_field, C[dd].is_input, C[dd].is_partial)
              THEN Opt(t0) ELSE t0
        F2 == [F1 EXCEPT ![i].ann = t1, ![i].lookups = @ + 1]
        again == SuperResolve(F2[i], D)
    IN IF resolved = UNRESOLVED THEN [ret |-> resolved, fld |-> F]
       ELSE IF dd = "" THEN [ret |-> resolved, fld |-> F]
       ELSE IF unwrap_type(resolved) \in {AnyT, Auto}
       THEN IF model_field.kind = "raise"
            THEN [ret |-> Raise("FieldDoesNotExist"),
                  fld |-> [F1 EXCEPT ![i].lookups = @ + 1]]
            ELSE [ret |-> IF again = Auto THEN UNRESOLVED ELSE again, fld |-> F2]
       ELSE [ret |-> IF resolved = Auto THEN UNRESOLVED ELSE resolved, fld |-> F1]

\* the types decorated by strawberry_django elsewhere in the program
DjangoTypes == {"ColorType", "FruitType", "ColorFilter"}
has_django_definition(C, t) ==
    /\ Len(t) = 1
    /\ \/ t[1] \in DjangoTypes
       \/ t[1] \in Classes /\ HasDefinition(C, t[1])

\* a union member with its containers taken off
of_type(m) == IF m = "List[FruitType]" THEN "FruitType" ELSE m

\* the body of the django_type property, for the value t of self.type
django_type(C, t) ==
    LET o1 == IF t[1] = "Connection" THEN Tail(t) ELSE t
        o2 == unwrap_type(o1)
        origin_list == {k \in 2..Len(o2) : has_django_definition(C, <<of_type(o2[k])>>)}
        o3 == IF o2[1] = "Union"
              THEN IF Cardinality(origin_list) = 1
                   THEN <<of_type(o2[CHOOSE k \in origin_list : TRUE])>>
                   ELSE <<"None">>
              ELSE o2
    IN IF has_django_definition(C, o3) THEN o3[1] ELSE "None"

\* field.type: the attribute of a dataclasses.Field, the property of a
\* StrawberryField
field_type(F, C, D, i) ==
    CASE F[i].kind = "dc" -> [ret |-> F[i].ann, fld |-> F]
      [] F[i].kind = "sf" -> [ret |-> SuperResolve(F[i], D), fld |-> F]
      [] OTHER -> resolve_type(F, C, D, i)

\* safe_resolver: the base resolver, which must exist
safe_resolver(f) == IF f.resolver THEN <<"base_resolver">> ELSE Raise("AssertionError")
\* resolver(self, source, info, args, kwargs): calls the safe resolver with
\* args and kwargs; what the user's function does is the input outcome
resolver(f, source, info, args, outcome) ==
    [source |-> source, info |-> info,
     ret |-> IF IsRaise(safe_resolver(f)) THEN safe_resolver(f)
             ELSE IF outcome = "raise" THEN Raise("ResolverError")
             ELSE <<"value", args>>]
get_result(f, source, info, args, outcome) == resolver(f, info, source, args, outcome)

\* the cached properties of StrawberryDjangoFieldBase that read self.type
CachedProps == {"django_type", "is_optional", "is_list", "is_connection"}
Bool(b) == IF b THEN "True" ELSE "False"
\* what the body of property p computes from the value t of self.type
property_value(p, C, t) ==
    CASE p = "django_type" -> django_type(C, t)
      [] p = "is_optional" -> Bool(IsOptionalT(t))
      [] p = "is_list" -> Bool(IsListT(t))
      [] p = "is_connection" -> Bool(IsConnectionT(t))
IsMemo(f, p) == \E e \in f.memo : e[1] = p
Memo(f, p) == (CHOOSE e \in f.memo : e[1] = p)[2]
\* functools.cached_property.__get__ on a first read: tr is what reading
\* self.type gave; a body that raises stores nothing
cached_property(p, tr, C, i) ==
    IF IsRaise(tr.ret) THEN tr
    ELSE [ret |-> <<property_value(p, C, tr.ret)>>,
          fld |-> [tr.fld EXCEPT ![i].memo = @ \cup {<<p, property_value(p, C, tr.ret)>>}]]

(* ------------------------------------------------------------------ *)
(* DjangoTypeExtension                                                *)
(* ------------------------------------------------------------------ *)
\* _get_model_attrs that takes every foreign key for its key column
get_model_attrs_fk_as_id(C, c, f) ==
    LET python_name == f.name
        model_name == IF f.kind = "dj" /\ f.django_name # ""
                      THEN f.django_name ELSE python_name
        found == get_model_field(model_name)
        model_attr == ModelAttr(model_name)
        is_fk_id == found.kind = "fk"
        t0 == resolve_model_field_type(
                 IF is_fk_id THEN target_field(found) ELSE found, Flags(C, c))
        t1 == IF is_optional(found, C[c].is_input, C[c].is_partial)
              THEN Opt(t0) ELSE t0
        \* getattr(field, "django_name", <default>): a StrawberryDjangoField
        \* always has the attribute, None included
        dn == IF f.kind = "dj" THEN f.django_name
              ELSE resolve_model_field_name(found, C[c].is_input,
                                            C[c].is_filter, is_fk_id)
        ok(n, t, r) == [raise |-> "", django_name |-> n, ann |-> t, is_relation |-> r]
        err(e) == [raise |-> e, django_name |-> "", ann |-> Auto, is_relation |-> FALSE]
    IN IF found.kind = "raise"
       THEN CASE model_attr.kind = "none" -> err("FieldDoesNotExist")
              [] model_attr.kind = "property" ->
                    IF model_attr.t = <<"none">>
                    THEN err("MissingFieldAnnotationError")
                    ELSE ok(model_name, model_attr.t, FALSE)
              [] OTHER -> err("FieldDoesNotExist")
       ELSE ok(dn, t1, IsRelation(found))

\* _get_model_attrs that answers Any where it should raise
get_model_attrs_swallowed(C, c, f) ==
    LET python_name == f.name
        model_name == IF f.kind = "dj" /\ f.django_name # ""
                      THEN f.django_name ELSE python_name
        found == get_model_field(model_name)
        model_attr == ModelAttr(model_name)
        is_fk_id == EndsWithId(python_name) /\ found.kind = "fk"
        t0 == resolve_model_field_type(
                 IF is_fk_id THEN target_field(found) ELSE found, Flags(C, c))
        t1 == IF is_optional(found, C[c].is_input, C[c].is_partial)
              THEN Opt(t0) ELSE t0
        \* getattr(field, "django_name", <default>): a StrawberryDjangoField
        \* always has the attribute, None included
        dn == IF f.kind = "dj" THEN f.django_name
              ELSE resolve_model_field_name(found, C[c].is_input,
                                            C[c].is_filter, is_fk_id)
        ok(n, t, r) == [raise |-> "", django_name |-> n, ann |-> t, is_relation |-> r]
        err(e) == [raise |-> "", django_name |-> model_name, ann |-> AnyT, is_relation |-> FALSE]
    IN IF found.kind = "raise"
       THEN CASE model_attr.kind = "none" -> err("FieldDoesNotExist")
              [] model_attr.kind = "property" ->
                    IF model_attr.t = <<"none">>
                    THEN err("MissingFieldAnnotationError")
                    ELSE ok(model_name, model_attr.t, FALSE)
              [] OTHER -> err("FieldDoesNotExist")
       ELSE ok(dn, t1, IsRelation(found))

\* DjangoTypeExtension._get_model_attrs(field) of the extension of class c:
\* the attributes computed for an auto field, or the exception raised
get_model_attrs(C, c, f) ==
    LET python_name == f.name
        model_name == IF f.kind = "dj" /\ f.django_name # ""
                      THEN f.django_name ELSE python_name
        found == get_model_field(model_name)
        model_attr == ModelAttr(model_name)
        is_fk_id == EndsWithId(python_name) /\ found.kind = "fk"
        t0 == resolve_model_field_type(
                 IF is_fk_id THEN target_field(found) ELSE found, Flags(C, c))
        t1 == IF is_optional(found, C[c].is_input, C[c].is_partial)
              THEN Opt(t0) ELSE t0
        \* getattr(field, "django_name", <default>): a StrawberryDjangoField
        \* always has the attribute, None included
        dn == IF f.kind = "dj" THEN f.django_name
              ELSE resolve_model_field_name(found, C[c].is_input,
                                            C[c].is_filter, is_fk_id)
        ok(n, t, r) == [raise |-> "", django_name |-> n, ann |-> t, is_relation |-> r]
        err(e) == [raise |-> e, django_name |-> "", ann |-> Auto, is_relation |-> FALSE]
    IN IF found.kind = "raise"
       THEN CASE model_attr.kind = "none" -> err("FieldDoesNotExist")
              [] model_attr.kind = "property" ->
                    IF model_attr.t = <<"none">>
                    THEN err("MissingFieldAnnotationError")
                    ELSE ok(model_name, model_attr.t, FALSE)
              [] OTHER -> err("FieldDoesNotExist")
       ELSE ok(dn, t1, IsRelation(found))

\* on_field without its input defaulting
input_default_skipped(C, c, f) == f

\* the (is_input and default is MISSING) tail of on_field
input_default(C, c, f) ==
    IF C[c].is_input /\ f.default = "MISSING" /\ f.default_value = "MISSING"
    THEN [f EXCEPT !.default = "UNSET", !.default_value = "UNSET"]
    ELSE f

\* on_field once field.type is read (tr) and the attributes to set are
\* computed (attrs): the isinstance dispatch and the input defaulting
on_field_apply(tr, auto, attrs, C, c, i) ==
    LET type_ == tr.ret
        F1 == tr.fld
        f == F1[i]
        updated == IF auto
                   THEN [f EXCEPT !.django_name = attrs.django_name,
                                  !.ann = attrs.ann,
                                  !.is_relation = attrs.is_relation]
                   ELSE [f EXCEPT !.ann = attrs.ann]
        created == [kind |-> "dj", name |-> f.name,
                    django_name |-> IF auto THEN attrs.django_name ELSE "",
                    ann |-> attrs.ann,
                    is_relation |-> IF auto THEN attrs.is_relation ELSE FALSE,
                    default |-> f.default, default_value |-> f.default,
                    resolver |-> f.resolver, origin |-> f.origin,
                    lookups |-> 0, memo |-> {}]
        new == Len(F1) + 1
        res(e, o, G) == [raise |-> e, out |-> o, fld |-> G, type |-> type_]
    IN IF IsRaise(type_) THEN res(type_[2], 0, F1)
       ELSE IF is_private(type_) THEN res("", i, F1)
       ELSE IF attrs.raise # "" THEN res(attrs.raise, 0, F1)
       ELSE IF f.kind = "dj"
       THEN res("", i, [F1 EXCEPT ![i] = input_default(C, c, updated)])
       ELSE IF f.kind = "sf" /\ f.resolver THEN res("", i, F1)
       ELSE res("", new, Append(F1, input_default(C, c, created)))

\* the attrs of on_field for a field that is not auto: its type annotation
own_attrs(f) ==
    [raise |-> "", django_name |-> f.django_name, ann |-> f.ann,
     is_relation |-> f.is_relation]

\* on_field that derives every field named after a model field, annotated
\* or not
on_field_rederive(F, C, D, c, i) ==
    LET tr == field_type(F, C, D, i)
        f == tr.fld[i]
        auto == is_auto(tr.ret) \/ (f.kind = "dc" /\ ModelAttr(f.name).kind \in FieldKinds)
    IN on_field_apply(tr, auto,
                      IF auto THEN get_model_attrs(C, c, f) ELSE own_attrs(f), C, c, i)

\* on_field once field.type is read
on_field_typed(tr, C, c, i) ==
    on_field_apply(tr, is_auto(tr.ret),
                   IF is_auto(tr.ret) THEN get_model_attrs(C, c, tr.fld[i])
                   ELSE own_attrs(tr.fld[i]), C, c, i)

\* on_field that takes every StrawberryField for a bare dataclass field
on_field_no_passthrough(F, C, D, c, i) ==
    on_field_typed(
        field_type([F EXCEPT ![i].kind = IF @ = "sf" THEN "dc" ELSE @], C, D, i),
        C, c, i)

\* DjangoTypeExtension.on_field(field) of the extension of class c on heap
\* object i: [raise, out, fld, type] with out the object returned and type the
\* field.type it read
on_field(F, C, D, c, i) == on_field_typed(field_type(F, C, D, i), C, c, i)

(* ------------------------------------------------------------------ *)
(* Classes                                                            *)
(* ------------------------------------------------------------------ *)
ParentOf(c) == IF c = "Sub" THEN "Base" ELSE ""
NodeAttrs == <<"resolve_id", "resolve_id_attr", "resolve_node", "resolve_nodes">>
NodeAttrSet == {NodeAttrs[k] : k \in DOMAIN NodeAttrs}
\* the model-bound function DjangoTypeExtension installs for attr
ModelFunc(attr) ==
    CASE attr = "resolve_id"      -> "resolve_model_id"
      [] attr = "resolve_id_attr" -> "resolve_model_id_attr"
      [] attr = "resolve_node"    -> "resolve_model_node"
      [] OTHER                    -> "resolve_model_nodes"
NoMeth == [kind |-> "absent", func |-> "", self |-> ""]

NoClass == [pc |-> "none", is_input |-> FALSE, is_partial |-> FALSE,
            is_filter |-> FALSE, names |-> <<>>, ann |-> <<>>,
            attr |-> <<>>, dcf |-> <<>>, idx |-> 1, fields |-> <<>>,
            node |-> FALSE, meth |-> [a \in NodeAttrSet |-> NoMeth]]

\* annotations are an insertion-ordered dict: a sequence of <<name, type>>
AnnNames(a) == {a[k][1] : k \in DOMAIN a}
AnnGet(a, n) == LET k == CHOOSE k \in DOMAIN a : a[k][1] = n IN a[k][2]
AnnSet(a, n, t) ==
    IF n \in AnnNames(a)
    THEN [k \in DOMAIN a |-> IF a[k][1] = n THEN <<n, t>> ELSE a[k]]
    ELSE Append(a, <<n, t>>)

\* class attributes are a sequence of <<name, id>>: id > 0 a Field object of
\* the heap, id = 0 a plain value
AttrNames(a) == {a[k][1] : k \in DOMAIN a}
AttrGet(a, n) == LET k == CHOOSE k \in DOMAIN a : a[k][1] = n IN a[k][2]

\* hasattr(cls, name), along the MRO
hasattr(C, c, n) ==
    \/ n \in AttrNames(C[c].attr)
    \/ ParentOf(c) # "" /\ n \in AttrNames(C[ParentOf(c)].attr)

\* DjangoTypeExtension.__init__: the names configured for injection
RECURSIVE Filter(_, _)
Filter(seq, keep) ==
    IF seq = <<>> THEN <<>>
    ELSE (IF Head(seq) \in keep THEN <<Head(seq)>> ELSE <<>>) \o Filter(Tail(seq), keep)
MetaNames == {MetaFields[k] : k \in DOMAIN MetaFields}
\* the names computed with the MAP_AUTO_ID_AS_GLOBAL_ID setting not consulted
model_field_names_keep_id(o) ==
    CASE o.fields = "__all__" -> MetaFields
      [] o.fields = "list" -> Filter(MetaFields, o.listed)
      [] o.fields = "None" /\ o.exclude = "list" /\ o.excluded # {} ->
            Filter(MetaFields, MetaNames \ o.excluded)
      [] OTHER -> <<>>
model_field_names(o) ==
    LET names == CASE o.fields = "__all__" -> MetaFields
                   [] o.fields = "list" -> Filter(MetaFields, o.listed)
                   [] o.fields = "None" /\ o.exclude = "list" /\ o.excluded # {} ->
                         Filter(MetaFields, MetaNames \ o.excluded)
                   [] OTHER -> <<>>
    IN IF o.map_id THEN Filter(names, MetaNames \ {"id"}) ELSE names

\* the injection without its "already declared" test
RECURSIVE inject_overwrite(_, _, _, _)
inject_overwrite(C, c, names, a) ==
    IF names = <<>> THEN a
    ELSE inject_overwrite(C, c, Tail(names),
                          AnnSet(a, Head(names), Auto))

\* the before phase of on_wrap_dataclass: the class annotations it leaves
RECURSIVE inject(_, _, _, _)
inject(C, c, names, a) ==
    IF names = <<>> THEN a
    ELSE inject(C, c, Tail(names),
                IF Head(names) \in AnnNames(a) \/ hasattr(C, c, Head(names))
                THEN a ELSE Append(a, <<Head(names), Auto>>))
FilterFields == << <<"AND", Opt(<<"Self">>)>>, <<"OR", Opt(<<"Self">>)>>,
                   <<"NOT", Opt(<<"Self">>)>>, <<"DISTINCT", Opt(<<"bool">>)>> >>
RECURSIVE update(_, _)
update(a, pairs) ==
    IF pairs = <<>> THEN a
    ELSE update(AnnSet(a, Head(pairs)[1], Head(pairs)[2]), Tail(pairs))
\* the before phase with the filter fields added ahead of the injection
wrap_before_filter_first(C, c) ==
    LET a1 == IF C[c].is_filter THEN update(C[c].ann, FilterFields) ELSE C[c].ann
    IN inject(C, c, C[c].names, a1)
wrap_before(C, c) ==
    LET a1 == inject(C, c, C[c].names, C[c].ann)
    IN IF C[c].is_filter THEN update(a1, FilterFields) ELSE a1

\* dataclasses.dataclass(cls), run by strawberry between the two phases: the
\* fields of the bases (the same Field objects), then one Field per own
\* annotation, which keeps the place of an inherited field of that name
RECURSIVE dc_fields(_, _, _, _, _)
dc_fields(C, c, anns, F, dcf) ==
    IF anns = <<>> THEN [fld |-> F, dcf |-> dcf]
    ELSE LET n == Head(anns)[1]
             t == Head(anns)[2]
             own == n \in AttrNames(C[c].attr) /\ AttrGet(C[c].attr, n) > 0
             id == IF own THEN AttrGet(C[c].attr, n) ELSE Len(F) + 1
             dflt == IF hasattr(C, c, n) THEN "val" ELSE "MISSING"
             F1 == IF own THEN [F EXCEPT ![id].ann = t]
                   ELSE Append(F, [NewField("dc", n, t) EXCEPT
                                       !.default = dflt, !.default_value = dflt])
             at == {k \in DOMAIN dcf : F1[dcf[k]].name = n}
             dcf1 == IF at = {} THEN Append(dcf, id)
                     ELSE [k \in DOMAIN dcf |-> IF k \in at THEN id ELSE dcf[k]]
         IN dc_fields(C, c, Tail(anns), F1, dcf1)

\* the class attributes dataclass() leaves: a Field without a default is
\* deleted, a Field with a default is replaced by the default
RECURSIVE dc_attrs(_, _)
dc_attrs(a, F) ==
    IF a = <<>> THEN <<>>
    ELSE LET n == Head(a)[1]
             id == Head(a)[2]
         IN (IF id = 0 THEN <<Head(a)>>
             ELSE IF F[id].default = "MISSING" THEN <<>> ELSE << <<n, 0>> >>)
            \o dc_attrs(Tail(a), F)

\* getattr(cls, attr, None) for a relay.Node method, along the MRO
getattr_meth(C, c, attr) ==
    LET own == C[c].meth[attr]
        p == ParentOf(c)
        inh == IF p = "" THEN NoMeth ELSE C[p].meth[attr]
    IN IF own.kind = "classmethod" THEN [own EXCEPT !.kind = "bound", !.self = c]
       ELSE IF own.kind = "bound" THEN own
       ELSE IF inh.kind = "classmethod" THEN [inh EXCEPT !.kind = "bound", !.self = c]
       ELSE IF inh.kind = "bound" THEN inh
       ELSE IF C[c].node THEN [kind |-> "bound", func |-> "Node." \o attr, self |-> c]
       ELSE NoMeth

\* the after phase without the re-binding of an inherited method
install_unbound(C, c, attr) ==
    LET existing == getattr_meth(C, c, attr)
    IN IF existing.kind = "absent" \/ existing.func = "Node." \o attr
       THEN [kind |-> "bound", func |-> ModelFunc(attr), self |-> c]
       ELSE C[c].meth[attr]

\* the after phase of on_wrap_dataclass for one attr: the entry it leaves in
\* the class __dict__
install(C, c, attr) ==
    LET existing == getattr_meth(C, c, attr)
        C1 == IF existing.kind = "absent" \/ existing.func = "Node." \o attr
              THEN [C EXCEPT ![c].meth[attr] =
                        [kind |-> "bound", func |-> ModelFunc(attr), self |-> c]]
              ELSE C
        meth == getattr_meth(C1, c, attr)
    IN IF meth.self # c
       THEN [kind |-> "bound", func |-> meth.func, self |-> c]
       ELSE C1[c].meth[attr]
wrap_after(C, c) ==
    IF ~C[c].node THEN C[c].meth
    ELSE [attr \in NodeAttrSet |-> install(C, c, attr)]

(* ------------------------------------------------------------------ *)
(* What the program text may declare                                  *)
(* ------------------------------------------------------------------ *)
Decl(kind, name, ann) ==
    [kind |-> kind, name |-> name, ann |-> ann, django_name |-> "",
     default |-> "MISSING", resolver |-> FALSE]
ModelNames == {"id", "mandatory", "default", "blank", "null", "color", "color_id",
               "types", "groups", "prop", "noann", "objects", "missing"}
\* class bodies of a class decorated without fields/exclude
DeclsWide ==
    {<<>>}
    \cup {<<Decl("dc", n, Auto)>> : n \in ModelNames}
    \cup {<<Decl("dj", n, Auto)>> : n \in {"id", "mandatory", "color_id", "prop", "missing"}}
    \cup {<<[Decl("dj", "users", Auto) EXCEPT !.django_name = "types"]>>,
          <<[Decl("dj", "ref_id", Auto) EXCEPT !.django_name = "color"]>>,
          <<[Decl("dc", "mandatory", Auto) EXCEPT !.default = "val"]>>,
          <<[Decl("dj", "mandatory", Auto) EXCEPT !.default = "val"]>>,
          <<Decl("dc", "extra", IntT)>>,
          <<Decl("dc", "mandatory", AnyT)>>,
          <<Decl("dc", "extra", AnyT)>>,
          <<Decl("dc", "color_id", AnyT)>>,
          <<Decl("dc", "types", Opt(Auto))>>,
          <<Decl("dc", "prop", Opt(Auto))>>,
          <<Decl("dc", "mandatory", Opt(Auto))>>,
          <<Decl("dj", "mandatory", Opt(Auto))>>,
          <<Decl("dc", "bytes0", Fwd)>>,
          <<Decl("dc", "bytes0", Opt(Fwd))>>,
          <<Decl("dc", "owner", <<"Union", "ColorType", "FruitType">>)>>,
          <<Decl("dc", "owner", Opt(<<"Union", "ColorType", "Unrelated">>))>>,
          <<Decl("dc", "owner", <<"Union", "Unrelated", "List[FruitType]">>)>>,
          <<Decl("dc", "friends", <<"Connection", "ColorType">>)>>,
          <<Decl("dj", "bytes0", Fwd)>>,
          <<Decl("dc", "secret", <<"Private", "int">>)>>,
          <<Decl("sf", "mandatory", Auto)>>,
          <<[Decl("sf", "extra", IntT) EXCEPT !.resolver = TRUE]>>,
          <<[Decl("dj", "extra", IntT) EXCEPT !.resolver = TRUE]>>,
          <<Decl("dc", "null", Auto), Decl("dc", "mandatory", Auto)>>}
\* class bodies of a class decorated with fields/exclude
DeclsNarrow ==
    {<<>>, <<Decl("dc", "mandatory", Auto)>>,
     <<[Decl("dc", "mandatory", IntT) EXCEPT !.default = "val"]>>,
     <<[Decl("dj", "null", Auto) EXCEPT !.default = "val"]>>,
     <<Decl("dc", "extra", IntT)>>}
\* class bodies of the subclass
DeclsSub ==
    {<<>>, <<Decl("dc", "color", Opt(<<"ColorFilter">>))>>,
     <<Decl("dc", "null", Auto)>>}

\* fields: "None", "__all__" or "list" (the names in listed); exclude: "None"
\* or "list" (the names in excluded); map_id: MAP_AUTO_ID_AS_GLOBAL_ID
NoConfig == [fields |-> "None", exclude |-> "None", listed |-> {}, excluded |-> {},
             map_id |-> FALSE]
Configs ==
    {NoConfig,
     [NoConfig EXCEPT !.fields = "__all__"],
     [NoConfig EXCEPT !.fields = "__all__", !.map_id = TRUE],
     [NoConfig EXCEPT !.fields = "list", !.listed = {"mandatory", "id", "bogus"}],
     [NoConfig EXCEPT !.fields = "list", !.listed = {"id"}, !.map_id = TRUE],
     [NoConfig EXCEPT !.exclude = "list", !.excluded = {"default", "blank", "null", "color"}],
     [NoConfig EXCEPT !.exclude = "list"],
     [NoConfig EXCEPT !.fields = "__all__", !.exclude = "list", !.excluded = {"id"}],
     [NoConfig EXCEPT !.fields = "list", !.listed = {"mandatory", "id", "bogus"},
                      !.exclude = "list", !.excluded = {"id"}],
     [NoConfig EXCEPT !.exclude = "list", !.excluded = {"bogus"}, !.map_id = TRUE]}
\* the subclass is given fields="__all__" only over a base without injection
ConfigsOf(C, c) ==
    IF c = "Base" THEN Configs
    ELSE IF C["Base"].names = <<>>
    THEN {NoConfig, [NoConfig EXCEPT !.fields = "__all__"]}
    ELSE {NoConfig}
\* the bases a subclass is written for: those that declare nothing outside
\* these names
SubclassedNames == {"id", "mandatory", "null", "color", "extra"}
Subclassed(C) ==
    \/ C["Base"].names # <<>>
    \/ AnnNames(C["Base"].ann) \subseteq
           SubclassedNames \cup {"AND", "OR", "NOT", "DISTINCT"}
\* strawberry_django.type / input / partial / input(is_filter=True) /
\* filters.filter
FlagSets ==
    {[is_input |-> FALSE, is_partial |-> FALSE, is_filter |-> FALSE],
     [is_input |-> TRUE, is_partial |-> FALSE, is_filter |-> FALSE],
     [is_input |-> TRUE, is_partial |-> TRUE, is_filter |-> FALSE],
     [is_input |-> TRUE, is_partial |-> FALSE, is_filter |-> TRUE],
     [is_input |-> TRUE, is_partial |-> TRUE, is_filter |-> TRUE]}
Overrides == {{}, {"resolve_id"}, {"resolve_node", "resolve_nodes"}}

(* ------------------------------------------------------------------ *)
(* Actions                                                            *)
(* ------------------------------------------------------------------ *)
\* io: the arguments of a get_result call followed by the source and info
\* its resolver received; the fields/exclude configuration of a decorator
Did(op, c, f, out, ret) ==
    [op |-> op, c |-> c, f |-> f, out |-> out, ret |-> ret, io |-> <<>>]

Init ==
    /\ cls = [c \in Classes |-> NoClass]
    /\ fld = <<>>
    /\ defined = FALSE
    /\ last = Did("init", "", 0, 0, <<"none">>)

\* operations on different fields do not touch each other's state: once a
\* field holds a cached value the model follows that field
Watched(i) == \A j \in DOMAIN fld : j # i => fld[j].memo = {}

\* the program is one type that declares its fields in its body
BodyOnly ==
    \A c \in Classes : cls[c].names = <<>> /\ (ParentOf(c) # "" => cls[c].pc = "none")

Quiet == \A c \in Classes : cls[c].pc \in {"none", "done", "failed"}

\* the decorator expression: DjangoTypeExtension.__init__
ExtInit(c) ==
    /\ cls[c].pc = "none"
    /\ Quiet
    /\ \A j \in DOMAIN fld : fld[j].memo = {}
    /\ ParentOf(c) # "" => (cls[ParentOf(c)].pc = "done" /\ Subclassed(cls))
    /\ \E fl \in FlagSets, o \in ConfigsOf(cls, c) :
          /\ cls' = [cls EXCEPT ![c].pc = "init",
                                ![c].is_input = fl.is_input,
                                ![c].is_partial = fl.is_partial,
                                ![c].is_filter = fl.is_filter,
                                ![c].names = model_field_names(o)]
          /\ last' = [Did("init_ext", c, 0, 0, <<"none">>) EXCEPT !.io = <<o>>]
    /\ UNCHANGED <<fld, defined>>

\* the class body: annotations, and the Field objects strawberry.field() and
\* strawberry_django.field() create
RECURSIVE body(_, _, _, _)
body(decls, F, ann, attr) ==
    IF decls = <<>> THEN [fld |-> F, ann |-> ann, attr |-> attr]
    ELSE LET d == Head(decls)
             obj == [NewField(d.kind, d.name, d.ann) EXCEPT
                         !.django_name = d.django_name, !.default = d.default,
                         !.default_value = d.default, !.resolver = d.resolver]
         IN IF d.kind = "dc"
            THEN body(Tail(decls), F, Append(ann, <<d.name, d.ann>>),
                      IF d.default = "val" THEN Append(attr, <<d.name, 0>>) ELSE attr)
            ELSE body(Tail(decls), Append(F, obj), Append(ann, <<d.name, d.ann>>),
                      Append(attr, <<d.name, Len(F) + 1>>))

ClassBody(c) ==
    /\ cls[c].pc = "init"
    /\ \E decls \in (IF c = "Sub" THEN DeclsSub
                     ELSE IF cls[c].names = <<>> THEN DeclsWide ELSE DeclsNarrow),
          node \in BOOLEAN, over \in Overrides :
          /\ (node \/ over # {}) => (decls = <<>> /\ cls[c].names = <<>>)
          /\ (c = "Sub" /\ cls[c].names # <<>>) => decls = <<>>
          /\ over # {} => (node \/ (ParentOf(c) # "" /\ cls[ParentOf(c)].node))
          /\ LET b == body(decls, fld, <<>>, <<>>)
             IN /\ fld' = b.fld
                /\ cls' = [cls EXCEPT
                      ![c].pc = "body", ![c].ann = b.ann, ![c].attr = b.attr,
                      ![c].node = node \/ (ParentOf(c) # "" /\ cls[ParentOf(c)].node),
                      ![c].meth = [a \in NodeAttrSet |->
                           IF a \in over
                           THEN [kind |-> "classmethod", func |-> "user." \o c, self |-> ""]
                           ELSE NoMeth]]
    /\ last' = Did("class_body", c, 0, 0, <<"none">>)
    /\ UNCHANGED defined

\* on_wrap_dataclass up to its yield
WrapBefore(c) ==
    /\ cls[c].pc = "body"
    /\ cls' = [cls EXCEPT ![c].pc = "before", ![c].ann = wrap_before(cls, c)]
    /\ last' = Did("wrap_before", c, 0, 0, <<"none">>)
    /\ UNCHANGED <<fld, defined>>

\* the yield: strawberry turns the class into a dataclass
Dataclass(c) ==
    /\ cls[c].pc = "before"
    /\ LET p == ParentOf(c)
           r == dc_fields(cls, c, cls[c].ann, fld, IF p = "" THEN <<>> ELSE cls[p].dcf)
       IN /\ fld' = r.fld
          /\ cls' = [cls EXCEPT ![c].pc = "dataclass", ![c].dcf = r.dcf,
                                ![c].attr = dc_attrs(cls[c].attr, r.fld)]
    /\ last' = Did("dataclass", c, 0, 0, <<"none">>)
    /\ UNCHANGED defined

\* on_wrap_dataclass after its yield
WrapAfter(c) ==
    /\ cls[c].pc = "dataclass"
    /\ cls' = [cls EXCEPT ![c].pc = "after", ![c].meth = wrap_after(cls, c)]
    /\ last' = Did("wrap_after", c, 0, 0, <<"none">>)
    /\ UNCHANGED <<fld, defined>>

\* the state on_field's result r leaves for field i of class c
Returned(c, i, r) ==
    LET o == r.out
        F2 == IF r.fld[o].kind # "dc" /\ r.fld[o].origin = ""
              THEN [r.fld EXCEPT ![o].origin = c] ELSE r.fld
    IN IF r.raise # ""
       THEN /\ fld' = r.fld
            /\ cls' = [cls EXCEPT ![c].pc = "failed"]
            /\ last' = Did("on_field_raised", c, i, 0, Raise(r.raise))
       ELSE /\ fld' = F2
            /\ cls' = [cls EXCEPT ![c].idx = @ + 1,
                          ![c].fields = IF is_private(F2[o].ann) THEN @
                                        ELSE Append(@, o)]
            /\ last' = Did("on_field", c, i, o, r.type)

\* strawberry hands the next dataclass field to on_field, gives the returned
\* field its origin and adds it to the fields of the definition
OnField(c) ==
    /\ cls[c].pc = "after"
    /\ cls[c].idx <= Len(cls[c].dcf)
    /\ Returned(c, cls[c].dcf[cls[c].idx],
                on_field(fld, cls, defined, c, cls[c].dcf[cls[c].idx]))
    /\ UNCHANGED defined

\* create_object_definition: the class has its DjangoObjectDefinition
CreateDefinition(c) ==
    /\ cls[c].pc = "after"
    /\ cls[c].idx > Len(cls[c].dcf)
    /\ cls' = [cls EXCEPT ![c].pc = "done"]
    /\ last' = Did("create_object_definition", c, 0, 0, <<"none">>)
    /\ UNCHANGED <<fld, defined>>

\* a caller (the schema builder, a test) asks a StrawberryDjangoField for its
\* type
ResolveType(i) ==
    /\ Quiet
    /\ fld[i].kind = "dj"
    /\ Watched(i)
    /\ fld[i].lookups < MaxLookups
    /\ LET r == resolve_type(fld, cls, defined, i)
       IN /\ fld' = r.fld
          /\ last' = Did("resolve_type", "", i, i, r.ret)
    /\ UNCHANGED <<cls, defined>>

Got(i, p, r) ==
    /\ fld' = r.fld
    /\ last' = Did(p, "", i, i, r.ret)

\* a caller reads one of the cached properties of a StrawberryDjangoField
ReadProperty(i) ==
    /\ BodyOnly
    /\ Quiet
    /\ fld[i].kind = "dj"
    /\ fld[i].lookups < MaxLookups
    /\ Watched(i)
    /\ \E p \in CachedProps :
          /\ IsMemo(fld[i], p) \/ Cardinality(fld[i].memo) < MaxMemo
          /\ Got(i, p, IF IsMemo(fld[i], p)
                       THEN [ret |-> <<Memo(fld[i], p)>>, fld |-> fld]
                       ELSE cached_property(p, field_type(fld, cls, defined, i), cls, i))
    /\ UNCHANGED <<cls, defined>>

Sources == {"root", "parent"}
Infos == {"info"}
Args == {"args"}
Outcomes == {"return", "raise"}
Called(i, source, info, args, r) ==
    last' = [Did("get_result", "", i, i, r.ret) EXCEPT
                !.io = <<source, info, args, r.source, r.info>>]

\* the executor asks a StrawberryDjangoField for its result
GetResult(i) ==
    /\ BodyOnly
    /\ Quiet
    /\ fld[i].kind = "dj"
    /\ \E source \in Sources, info \in Infos, args \in Args, outcome \in Outcomes :
          Called(i, source, info, args, get_result(fld[i], source, info, args, outcome))
    /\ UNCHANGED <<cls, fld, defined>>

\* the module defines the name a forward reference points at
DefineForward ==
    /\ Quiet
    /\ ~defined
    /\ \E i \in DOMAIN fld : unwrap_type(fld[i].ann) = Fwd
    /\ defined' = TRUE
    /\ last' = Did("define", "", 0, 0, <<"none">>)
    /\ UNCHANGED <<cls, fld>>

Next ==
    \/ \E c \in Classes : ExtInit(c)
    \/ \E c \in Classes : ClassBody(c)
    \/ \E c \in Classes : WrapBefore(c)
    \/ \E c \in Classes : Dataclass(c)
    \/ \E c \in Classes : WrapAfter(c)
    \/ \E c \in Classes : OnField(c)
    \/ \E c \in Classes : CreateDefinition(c)
    \/ \E i \in DOMAIN fld : ResolveType(i)
    \/ \E i \in DOMAIN fld : ReadProperty(i)
    \/ \E i \in DOMAIN fld : GetResult(i)
    \/ DefineForward

Spec == Init /\ [][Next]_vars

(* ------------------------------------------------------------------ *)
(* Properties                                                         *)
(* ------------------------------------------------------------------ *)
\* the model attribute a field is bound to
AttrOf(f) == ModelAttr(IF f.django_name # "" THEN f.django_name ELSE f.name)
Required(a) == ~a.null /\ ~a.default /\ ~a.blank /\ ~a.autopk
\* on_field has just returned a field it derived from an auto annotation
DerivedAuto == last.op = "on_field" /\ last.ret = Auto

\* C1: an auto field of an input type is non-optional exactly when its model
\* attribute is required, and every auto field of a partial input is optional
C1_InputOptionality ==
    (DerivedAuto /\ cls[last.c].is_input) =>
        LET f == fld[last.out]
        IN IF cls[last.c].is_partial THEN IsOptionalT(f.ann)
           ELSE IsOptionalT(f.ann) <=> ~Required(AttrOf(f))

\* C2: an auto field inherited from a base decorated with other flags has, in
\* the subclass, the optionality of the subclass's flags: optional in a
\* partial input, and the primary key optional in an input
InheritedAuto(f) ==
    /\ f.name \in AnnNames(cls["Base"].ann)
    /\ AnnGet(cls["Base"].ann, f.name) = Auto
    /\ f.name \notin AnnNames(cls["Sub"].ann)
    /\ AttrOf(f).kind \in FieldKinds
C2_InheritedOptionality ==
    cls["Sub"].pc = "done" =>
        \A k \in DOMAIN cls["Sub"].fields :
            LET f == fld[cls["Sub"].fields[k]]
            IN (InheritedAuto(f) /\ cls["Sub"].is_input
                    /\ (cls["Sub"].is_partial \/ AttrOf(f).autopk))
               => IsOptionalT(f.ann)

\* C3: once resolve_type has returned a concrete type for a field, calling it
\* again returns that type and changes nothing, and the field's model lookup
\* has been performed at most once
C3_ResolveIdempotent ==
    (last.op = "resolve_type" /\ Concrete(last.ret)) =>
        LET again == resolve_type(fld, cls, defined, last.f)
        IN /\ again.ret = last.ret
           /\ again.fld = fld
           /\ fld[last.f].lookups <= 1
C3_Witness ==
    /\ last.op = "resolve_type"
    /\ Concrete(last.ret)
    /\ fld[last.f].lookups = 1

\* the type a caller reads from field object f
TypeOf(f) == SuperResolve(f, defined)
FieldNames(c) == [k \in DOMAIN cls[c].fields |-> fld[cls[c].fields[k]].name]
FieldNamed(c, n) == {k \in DOMAIN cls[c].fields : fld[cls[c].fields[k]].name = n}
FourNames == {"AND", "OR", "NOT", "DISTINCT"}
Filterable(c) == cls[c].pc = "done" /\ cls[c].is_filter
InheritsFilter(c) == ParentOf(c) # "" /\ cls[ParentOf(c)].is_filter

\* C4: once a field's type slot holds a concrete type, no later operation
\* changes it
C4_ResolvedOnce ==
    [][\A i \in DOMAIN fld :
          (fld[i].kind # "dc" /\ Concrete(SuperResolve(fld[i], defined)))
          => SuperResolve(fld'[i], defined') = SuperResolve(fld[i], defined)]_vars
C4_Witness ==
    /\ cls["Sub"].pc = "done"
    /\ \E k \in DOMAIN cls["Sub"].fields :
          LET f == fld[cls["Sub"].fields[k]]
          IN f.origin = "Base" /\ f.lookups = 1 /\ Concrete(TypeOf(f))

\* the four filter fields of c are there once each, with their types
FourOnce(c) ==
    /\ \A n \in FourNames : Cardinality(FieldNamed(c, n)) = 1
    /\ Len(cls[c].fields) =
          4 + Cardinality({k \in DOMAIN cls[c].fields : FieldNames(c)[k] \notin FourNames})
    /\ \A k \in DOMAIN cls[c].fields :
          LET f == fld[cls[c].fields[k]]
          IN /\ f.name \in {"AND", "OR", "NOT"} => TypeOf(f) = <<"Optional", c>>
             /\ f.name = "DISTINCT" => TypeOf(f) = <<"Optional", "bool">>
\* the four filter fields of c are its last four fields
FourLast(c) ==
    LET ns == FieldNames(c)
        n == Len(ns)
    IN n >= 4 /\ SubSeq(ns, n - 3, n) = <<"AND", "OR", "NOT", "DISTINCT">>

\* C5 as stated: a filterable type has the four filter fields once each, with
\* their types, after all its other fields
C5_FilterFieldsLast ==
    \A c \in Classes : Filterable(c) => FourOnce(c) /\ FourLast(c)
\* C5 as amended: the four fields are there once each with their types, and
\* are the last four unless the type inherits them from a filterable base
C5_FilterFields ==
    \A c \in Classes :
        Filterable(c) => FourOnce(c) /\ (~InheritsFilter(c) => FourLast(c))
C5_Witness ==
    /\ Filterable("Sub")
    /\ ~cls["Base"].is_filter
    /\ Len(cls["Sub"].fields) > 5

\* the type a caller is given by field object i (field.type)
Observed(i) == field_type(fld, cls, defined, i).ret
SubField(n) == cls["Sub"].fields[CHOOSE k \in FieldNamed("Sub", n) : TRUE]
\* the names the subclass annotates with an explicit type
Redeclared == {n \in AnnNames(cls["Sub"].ann) \ FourNames :
                  AnnGet(cls["Sub"].ann, n) # Auto}
KeepsNames ==
    \A k \in DOMAIN cls["Base"].fields :
        LET b == fld[cls["Base"].fields[k]]
        IN b.name \notin FourNames => Cardinality(FieldNamed("Sub", b.name)) = 1
KeepsTypes ==
    \A k \in DOMAIN cls["Base"].fields :
        LET b == fld[cls["Base"].fields[k]]
        IN (b.name \notin FourNames /\ b.name \notin Redeclared
                /\ FieldNamed("Sub", b.name) # {})
           => Observed(SubField(b.name)) = Observed(cls["Base"].fields[k])
RedeclaredReplace ==
    \A n \in Redeclared :
        /\ Cardinality(FieldNamed("Sub", n)) = 1
        /\ Observed(SubField(n)) = AnnGet(cls["Sub"].ann, n)

C7_InjectFrame ==
    [][\A c \in Classes :
          (cls[c].pc = "body" /\ cls'[c].pc = "before") =>
             /\ \A k \in DOMAIN cls[c].names :
                   LET n == cls[c].names[k]
                   IN IF n \in AnnNames(cls[c].ann) \/ hasattr(cls, c, n)
                      THEN n \in AnnNames(cls'[c].ann) <=> n \in AnnNames(cls[c].ann)
                      ELSE n \in AnnNames(cls'[c].ann) /\ AnnGet(cls'[c].ann, n) = Auto
             /\ \A k \in DOMAIN cls[c].ann :
                   cls[c].ann[k][1] \notin FourNames => cls'[c].ann[k] = cls[c].ann[k]
             /\ cls'[c].attr = cls[c].attr
             /\ fld' = fld]_vars
C7_Witness ==
    \E c \in Classes :
        /\ cls[c].pc = "before"
        /\ \E k \in DOMAIN cls[c].names : cls[c].names[k] = "mandatory"
        /\ "mandatory" \in AnnNames(cls[c].ann)
        /\ AnnGet(cls[c].ann, "mandatory") = IntT
        /\ "id" \in AnnNames(cls[c].ann)
        /\ AnnGet(cls[c].ann, "id") = Auto

\* an on_field call of class c returned in this step
OnFieldStep(c) == cls[c].pc = "after" /\ cls'[c].idx = cls[c].idx + 1
Defaulted(f) == f.default = "UNSET" /\ f.default_value = "UNSET"
NoDefault(f) == f.default = "MISSING" /\ f.default_value = "MISSING"

\* C8 as stated: in an input type every field on_field leaves has an
\* explicit default or the UNSET default
C8_AllInputFieldsDefaulted ==
    (last.op = "on_field" /\ cls[last.c].is_input) => ~NoDefault(fld[last.out])
\* C8 as amended: in an input type every field on_field returns as a
\* StrawberryDjangoField and that had no default has default and
\* default_value UNSET, a field with an explicit default keeps it, and in a
\* type that is not an input on_field changes no default to UNSET
C8_InputDefault ==
    [][\A c \in Classes :
          OnFieldStep(c) =>
             LET i == cls[c].dcf[cls[c].idx]
                 o == last'.out
             IN /\ (cls[c].is_input /\ fld'[o].kind = "dj" /\ NoDefault(fld[i]))
                      => Defaulted(fld'[o])
                /\ fld[i].default = "val"
                      => fld'[o].default = "val" /\ fld'[o].default_value = "val"
                /\ ~cls[c].is_input =>
                      \A j \in DOMAIN fld' :
                         (fld'[j].default = "UNSET" \/ fld'[j].default_value = "UNSET")
                            => (j \in DOMAIN fld /\ fld'[j].default = fld[j].default
                                   /\ fld'[j].default_value = fld[j].default_value)]_vars
C8_Witness ==
    /\ last.op = "on_field"
    /\ cls[last.c].is_input
    /\ fld[last.f].kind = "dc"
    /\ NoDefault(fld[last.f])
    /\ Defaulted(fld[last.out])

\* the function a user wrote for attr on c or on its base, "" when none did
UserOverride(c, attr) ==
    IF cls[c].meth[attr].kind = "classmethod" THEN "user." \o c
    ELSE IF ParentOf(c) # "" /\ cls[ParentOf(c)].meth[attr].kind = "classmethod"
    THEN "user." \o ParentOf(c)
    ELSE ""
\* C9: after the after phase a relay.Node class finds each of the four
\* resolvers bound to itself, with the user's function where the class or its
\* base overrode it and the model's function otherwise; a class that is not
\* a relay.Node has none of the four set
C9_NodeResolvers ==
    \A c \in Classes :
        cls[c].pc \in {"after", "done", "failed"} =>
            IF cls[c].node
            THEN \A attr \in NodeAttrSet :
                    LET m == getattr_meth(cls, c, attr)
                    IN /\ m.kind = "bound"
                       /\ m.self = c
                       /\ m.func = IF UserOverride(c, attr) # ""
                                   THEN UserOverride(c, attr)
                                   ELSE ModelFunc(attr)
            ELSE \A attr \in NodeAttrSet : cls[c].meth[attr] = NoMeth
C9_Witness ==
    /\ cls["Sub"].pc = "done"
    /\ cls["Base"].node
    /\ cls["Base"].meth["resolve_id"].kind = "classmethod"
    /\ cls["Base"].meth["resolve_node"].self = "Base"
    /\ cls["Sub"].meth["resolve_node"] =
          [kind |-> "bound", func |-> ModelFunc("resolve_node"), self |-> "Sub"]
    /\ getattr_meth(cls, "Sub", "resolve_id").func = "user.Base"

\* an auto field that on_field just derived from a relation of the model,
\* other than through the relation's key column
DerivedRelation ==
    /\ DerivedAuto
    /\ fld[last.out].kind = "dj"
    /\ ~EndsWithId(fld[last.out].name)
    /\ IsRelation(AttrOf(fld[last.out]))
FkIdField(f) == EndsWithId(f.name) /\ AttrOf(f).kind = "fk"
KeyScalar(t) == unwrap_type(t) = target_field(ColorFK).t
\* C11: an _id auto field over a foreign key has the type of the relation's
\* target key, whether on_field derived it or resolve_type looked it up, and
\* whether the field's name or its django_name names the attribute
C11_FkIdKeyType ==
    /\ (DerivedAuto /\ FkIdField(fld[last.out])) => KeyScalar(fld[last.out].ann)
    /\ (last.op = "resolve_type" /\ FkIdField(fld[last.f])
            /\ fld[last.f].lookups > 0 /\ ~IsRaise(last.ret))
          => KeyScalar(last.ret)
C11_Witness ==
    /\ last.op = "resolve_type"
    /\ fld[last.f].name = "color_id"
    /\ fld[last.f].lookups = 1
    /\ KeyScalar(last.ret)

\* the error computing the attributes of model attribute `name` ends in
ExpectedError(name) ==
    CASE ModelAttr(name).kind \in {"none", "other"} -> "FieldDoesNotExist"
      [] ModelAttr(name).kind = "property" /\ ModelAttr(name).t = <<"none">> ->
            "MissingFieldAnnotationError"
      [] OTHER -> ""
\* the model attribute an auto field is looked up under
LookupName(f) == IF f.kind = "dj" /\ f.django_name # "" THEN f.django_name ELSE f.name
\* C12: when the attributes of an auto field cannot be computed, on_field
\* raises that error, decoration of the class ends there, no field is added
\* and no field object is changed
C12_ErrorAborts ==
    [][\A c \in Classes :
          /\ (cls[c].pc = "after" /\ cls[c].idx <= Len(cls[c].dcf) /\ cls'[c] # cls[c]) =>
                LET i == cls[c].dcf[cls[c].idx]
                    e == ExpectedError(LookupName(fld[i]))
                IN (field_type(fld, cls, defined, i).ret = Auto /\ e # "") =>
                      /\ last' = Did("on_field_raised", c, i, 0, Raise(e))
                      /\ cls'[c] = [cls[c] EXCEPT !.pc = "failed"]
                      /\ fld' = fld
          /\ cls[c].pc = "failed" => cls'[c] = cls[c]]_vars
C12_Witness ==
    /\ last.op = "on_field_raised"
    /\ last.ret = Raise("MissingFieldAnnotationError")
    /\ cls[last.c].pc = "failed"
    /\ fld[last.f].ann = Auto
    /\ cls[last.c].fields = <<>>

\* the annotation class c has for name n, its own or its base's
AnnOf(c, n) ==
    IF n \in AnnNames(cls[c].ann) THEN AnnGet(cls[c].ann, n)
    ELSE IF ParentOf(c) # "" /\ n \in AnnNames(cls[ParentOf(c)].ann)
    THEN AnnGet(cls[ParentOf(c)].ann, n)
    ELSE <<"none">>
OnModel(f) == ModelAttr(LookupName(f)).kind # "none"
IsUnion(t) == unwrap_type(t)[1] = "Union"
BackedMembers(t) ==
    {k \in 2..Len(unwrap_type(t)) :
        of_type(unwrap_type(t)[k]) \in DjangoTypes \cup {"Base", "Sub"}}

\* C14: a union-typed field with more than one model-backed member is
\* reported as an error: its class does not complete decoration and reading
\* django_type does not return a value; with exactly one model-backed member
\* django_type is that member
C14_UnionCandidates ==
    /\ \A c \in Classes : \A k \in DOMAIN cls[c].fields :
          (IsUnion(fld[cls[c].fields[k]].ann)
              /\ Cardinality(BackedMembers(fld[cls[c].fields[k]].ann)) > 1)
            => cls[c].pc # "done"
    /\ (last.op = "django_type" /\ IsUnion(fld[last.f].ann))
          => \/ /\ Cardinality(BackedMembers(fld[last.f].ann)) > 1
                /\ IsRaise(last.ret)
             \/ /\ Cardinality(BackedMembers(fld[last.f].ann)) = 1
                /\ \E k \in BackedMembers(fld[last.f].ann) :
                      last.ret = <<of_type(unwrap_type(fld[last.f].ann)[k])>>

\* C15: get_result(source, info, args, kwargs) hands its source to the
\* resolver as source and its info as info, and returns what the resolver
\* returned or raised
C15_GetResultArguments ==
    last.op = "get_result" =>
        /\ last.io[4] = last.io[1]
        /\ last.io[5] = last.io[2]
        /\ \/ IsRaise(last.ret)
           \/ last.ret = <<"value", last.io[3]>>

\* the value of a shape property for a resolved type t
ShapeOf(p, t) ==
    LET inner == IF t[1] = "Optional" THEN Tail(t) ELSE t
    IN CASE p = "is_optional" -> Bool(t[1] = "Optional")
         [] p = "is_list" -> Bool(inner[1] = "List")
         [] p = "is_connection" -> Bool(inner[1] = "Connection")

\* C16: once the type of a field resolves to a concrete type, the values of
\* is_optional, is_list and is_connection the field gives are those of the
\* shape of that type, whenever they were first read
C16_ShapeFollowsType ==
    \A i \in DOMAIN fld :
        (fld[i].kind = "dj" /\ Concrete(field_type(fld, cls, defined, i).ret)) =>
            \A e \in fld[i].memo :
                e[1] # "django_type" =>
                    e[2] = ShapeOf(e[1], field_type(fld, cls, defined, i).ret)

\* the claim as written: no resolve_type call on a StrawberryDjangoField, by a
\* caller or by on_field reading field.type, returns auto
C17_NeverAuto ==
    /\ last.op = "resolve_type" => last.ret # Auto
    /\ (last.op = "on_field" /\ fld[last.f].kind = "dj") => last.ret # Auto

\* C17: resolve_type on a field whose origin has its django definition
\* returns a concrete type or UNRESOLVED or raises, never auto or Any, bare or
\* wrapped
C17_NoAutoOnceDefined ==
    (last.op \in {"resolve_type", "on_field"} /\ fld[last.f].kind = "dj"
        /\ django_definition(fld, cls, last.f) # "")
      => \/ last.ret = UNRESOLVED
         \/ IsRaise(last.ret)
         \/ Concrete(last.ret)
C17_Witness ==
    /\ last.op = "resolve_type"
    /\ django_definition(fld, cls, last.f) # ""
    /\ AnnOf(fld[last.f].origin, fld[last.f].name) = Opt(Auto)
    /\ fld[last.f].lookups = 1
    /\ Concrete(last.ret)

\* a field object but for the origin strawberry gives it afterwards
SameButOrigin(g, f) == [g EXCEPT !.origin = f.origin] = f
PassedThrough(f, t) == is_private(t) \/ (f.kind = "sf" /\ f.resolver)

\* C18: on_field returns the object it was given, unchanged, when the type is
\* private or the field is a plain StrawberryField with a resolver; any other
\* field comes back as a StrawberryDjangoField: the same object when it was
\* one already, otherwise a new object with the name, the default and the
\* resolver of the one given, which is left as it was
C18_OnFieldReturn ==
    [][\A c \in Classes :
          (OnFieldStep(c) /\ last'.op = "on_field") =>
             LET i == cls[c].dcf[cls[c].idx]
                 o == last'.out
             IN IF PassedThrough(fld[i], last'.ret)
                THEN /\ o = i
                     /\ Len(fld') = Len(fld)
                     /\ SameButOrigin(fld'[i], fld[i])
                ELSE /\ fld'[o].kind = "dj"
                     /\ fld[i].kind = "dj" => o = i /\ Len(fld') = Len(fld)
                     /\ fld[i].kind # "dj" =>
                           /\ o = Len(fld) + 1
                           /\ Len(fld') = Len(fld) + 1
                           /\ fld'[i] = fld[i]
                           /\ fld'[o].name = fld[i].name
                           /\ fld'[o].resolver = fld[i].resolver
                           /\ fld'[o].default =
                                 (IF cls[c].is_input /\ NoDefault(fld[i])
                                  THEN "UNSET" ELSE fld[i].default)]_vars
C18_Witness ==
    /\ last.op = "on_field"
    /\ last.out = last.f
    /\ fld[last.f].kind = "sf"
    /\ fld[last.f].resolver
    /\ cls[last.c].fields = <<last.f>>

\* the names a configuration selects, as a set
Selected(o) ==
    LET all == {"id", "mandatory", "default", "blank", "null", "color"}
        chosen == IF o.fields = "__all__" THEN all
                  ELSE IF o.fields = "list" THEN all \cap o.listed
                  ELSE IF o.exclude = "list" /\ o.excluded # {} THEN all \ o.excluded
                  ELSE {}
    IN IF o.map_id THEN chosen \ {"id"} ELSE chosen
Position(n) == CHOOSE k \in DOMAIN MetaFields : MetaFields[k] = n
InModelOrder(s) ==
    \A a, b \in DOMAIN s : a < b => Position(s[a]) < Position(s[b])

\* C19: the names the decorator keeps for injection are all model fields for
\* fields="__all__", the listed model fields for a fields list (exclude not
\* consulted), the model fields outside a non-empty exclude when fields is
\* not given, none otherwise; without "id" when MAP_AUTO_ID_AS_GLOBAL_ID is
\* on; in model order
C19_InjectedNames ==
    last.op = "init_ext" =>
        /\ {cls[last.c].names[k] : k \in DOMAIN cls[last.c].names} = Selected(last.io[1])
        /\ InModelOrder(cls[last.c].names)
C19_Witness ==
    /\ last.op = "init_ext"
    /\ last.io[1].fields = "list"
    /\ last.io[1].exclude = "list"
    /\ "id" \in last.io[1].excluded
    /\ cls[last.c].names = <<"id", "mandatory">>

\* a field declared auto, bare or wrapped, whose type the last resolve_type
\* call took from the model
LazilyDerived ==
    /\ last.op = "resolve_type"
    /\ fld[last.f].lookups > 0
    /\ Concrete(last.ret)
    /\ unwrap_type(AnnOf(fld[last.f].origin, fld[last.f].name)) = Auto

\* C20: once the type of an auto field is taken from the model, by on_field
\* or by resolve_type, is_relation of the field tells whether its model
\* attribute is a relation
C20_IsRelation ==
    /\ (DerivedAuto /\ fld[last.out].kind = "dj")
          => (fld[last.out].is_relation <=> IsRelation(AttrOf(fld[last.out])))
    /\ LazilyDerived
          => (fld[last.f].is_relation <=> IsRelation(AttrOf(fld[last.f])))

\* C21: a resolve_type call that takes the type of a field from the model
\* ends as _get_model_attrs of the extension of the field's class ends for
\* that field: with the same type, Optional wrapping included, or both with
\* an error
C21_PathsAgree ==
    [][\A i \in DOMAIN fld :
          (last'.op = "resolve_type" /\ last'.f = i
              /\ fld'[i].lookups = fld[i].lookups + 1) =>
             IF get_model_attrs(cls, fld[i].origin, fld[i]).raise # ""
             THEN IsRaise(last'.ret)
             ELSE last'.ret = get_model_attrs(cls, fld[i].origin, fld[i]).ann]_vars
====
